---- MODULE Spec2Model ----
(***************************************************************************)
(* hydrogen: edge-triggered TCP server core.                               *)
(*                                                                         *)
(* Three kinds of threads are modelled, each as a small program counter   *)
(* machine whose steps are the places where the thread touches state      *)
(* another thread can see (the registry mutex, the kernel's descriptor    *)
(* table and epoll set, the worker channels):                             *)
(*   - the listener        (listen / handle_new_connection, server.rs)    *)
(*   - the readiness loop  (event_loop / handle_epoll_event, server.rs)   *)
(*   - the workers         (WorkerThread::start, server/workerthread.rs)  *)
(* The peers and the kernel are the environment.                          *)
(***************************************************************************)
EXTENDS Integers, Sequences, FiniteSets, TLC

\* ------------------------------------------------------------------ bounds
\* Connections the listener accepts during a run.
MaxConns == 2
\* Frames the peers write during a run, over all connections.
MaxFrames == 2
\* config.workers: worker threads of the pool.
NumWorkers == 2
\* Streams in the master list when the take is checked on its own.
MaxList == 4

Conns == 1..MaxConns
\* Descriptor numbers the kernel hands out (lowest free first).
Fds == 1..MaxConns
Workers == 1..NumWorkers

\* ---------------------------------------------------------------- payloads
\* A stats request for a 1.0 s window, a plain message, and a five byte
\* message that starts like a stats request.
StatsFrame == <<4, 4, 0, 0, 128, 63>>
PlainFrame == <<1, 2, 3>>
ShortFrame == <<4, 4, 0, 0, 128>>
Payloads == {StatsFrame, PlainFrame, ShortFrame}

\* payload.len() == 6 && payload[0] == 0x04 && payload[1] == 0x04
IsStatsRequest(payload) ==
    Len(payload) = 6 /\ payload[1] = 4 /\ payload[2] = 4

VARIABLES
    \* ---- environment: kernel and peers
    fdTable,      \* [Fds -> Conns \cup {0}]: the connection behind each descriptor number, 0 when free
    peer,         \* [Conns -> {"open","fin","hup"}]: what the remote end has done
    wire,         \* [Conns -> Seq(Payloads)]: frames the peer has written, in arrival order
    nread,        \* [Conns -> Nat]: frames of wire[c] already consumed by a successful recv
    epollSet,     \* descriptors registered with the epoll instance
    ready,        \* [Fds -> SUBSET {"IN","HUP"}]: event mask pending in the kernel
    nextConn,     \* identity of the next connection accept returns
    limits,       \* [conns, frames, workers]: what the run's environment and configuration allow
    \* ---- shared program state
    streams,      \* the master list: Seq of Stream records [conn, fd]
    queues,       \* [Workers -> Seq(task)]: each worker's channel
    alive,        \* [Workers -> BOOLEAN]: the worker thread is still running
    fds_opened,   \* stats::fd_opened counter
    fds_closed,   \* stats::fd_closed counter
    conn_recv,    \* stats::conn_recv counter
    conn_lost,    \* stats::conn_lost counter
    \* ---- listener thread
    lpc,          \* "idle" | "setup" | "insert" | "register" | "rollback" | "close"
    lstream,      \* the Stream handle_new_connection is working on
    \* ---- readiness loop thread
    epc,          \* "wait" | "dispatch" | "handle" | "drain" | "putback" | "dereg" | "close" | "notify" | "dead"
    batch,        \* events returned by the last wait and not handled yet
    event,        \* the event being handled: [data, events]
    stream,       \* the Stream taken out of the master list
    rx_queue,     \* frames of the drained batch not iterated yet: Seq of [seq, bytes]
    \* ---- history
    submitted,    \* [Conns -> Seq(task)]: tasks handed to the pool, by the connection of their Stream
    delivered,    \* [Conns -> Seq(Payloads)]: payloads passed to on_data_received
    notified,     \* [Conns -> Nat]: on_stream_closed invocations
    closeCalls,   \* [Conns -> Nat]: close() calls that closed the connection's descriptor
    closeCounted, \* [Conns -> Nat]: fd_closed increments made for the connection's descriptor
    connFd,       \* [Conns -> Fds \cup {0}]: the descriptor number accept returned for the connection
    registered,   \* connections whose descriptor was ever added to epoll
    loopClosed,   \* connections the readiness loop took the close path for
    lockedIO,     \* system calls made on a descriptor while the StreamList guard was alive
    sends         \* set of [from, closed, dest]: sends made by workers on held Stream handles

envVars == <<fdTable, peer, wire, nread, epollSet, ready, nextConn, limits, connFd>>
listenerVars == <<lpc, lstream>>
loopVars == <<epc, batch, event, stream, rx_queue>>
workerVars == <<queues, alive>>
counterVars == <<fds_opened, fds_closed>>
connStats == <<conn_recv, conn_lost>>
closeHist == <<closeCalls, closeCounted>>
taskHist == <<submitted, delivered, notified, sends>>
vars == <<fdTable, peer, wire, nread, epollSet, ready, nextConn, streams, queues,
          alive, fds_opened, fds_closed, lpc, lstream, epc, batch, event, stream,
          rx_queue, submitted, delivered, notified, closeCalls, closeCounted,
          registered, loopClosed, sends, limits, connFd, lockedIO, conn_recv,
          conn_lost>>

NoStream == [conn |-> 0, fd |-> 0]
NoEvent == [data |-> 0, events |-> {}]

Start ==
    /\ fdTable = [f \in Fds |-> 0]
    /\ peer = [c \in Conns |-> "open"]
    /\ wire = [c \in Conns |-> <<>>]
    /\ nread = [c \in Conns |-> 0]
    /\ epollSet = {}
    /\ ready = [f \in Fds |-> {}]
    /\ nextConn = 1
    /\ streams = <<>>
    /\ queues = [w \in Workers |-> <<>>]
    /\ alive = [w \in Workers |-> TRUE]
    /\ fds_opened = 0
    /\ fds_closed = 0
    /\ conn_recv = 0
    /\ conn_lost = 0
    /\ lpc = "idle"
    /\ lstream = NoStream
    /\ epc = "wait"
    /\ batch = {}
    /\ event = NoEvent
    /\ stream = NoStream
    /\ rx_queue = <<>>
    /\ submitted = [c \in Conns |-> <<>>]
    /\ delivered = [c \in Conns |-> <<>>]
    /\ notified = [c \in Conns |-> 0]
    /\ closeCalls = [c \in Conns |-> 0]
    /\ closeCounted = [c \in Conns |-> 0]
    /\ registered = {}
    /\ loopClosed = {}
    /\ lockedIO = {}
    /\ sends = {}
    /\ connFd = [c \in Conns |-> 0]

\* A server with config.workers = NumWorkers, MaxConns peers and MaxFrames frames.
Init ==
    /\ Start
    /\ limits = [conns |-> MaxConns, frames |-> MaxFrames, workers |-> NumWorkers]

\* A server with config.workers = 1 and a single peer that writes a longer burst.
InitBurst ==
    /\ Start
    /\ limits = [conns |-> 1, frames |-> MaxFrames + 1, workers |-> 1]

\* ------------------------------------------------------------- environment
Min(S) == CHOOSE x \in S : \A y \in S : x <= y

\* accept(2) returns the lowest descriptor number that is free.
LowestFree == Min({f \in Fds : fdTable[f] = 0})

\* The descriptor number behind which connection c currently lives (0: none).
FdOf(c) == IF \E f \in Fds : fdTable[f] = c
           THEN CHOOSE f \in Fds : fdTable[f] = c
           ELSE 0

\* The event mask epoll holds for connection c's socket in its present state:
\* unread bytes or a FIN make it readable, a reset raises hang-up alone.
MaskNow(c) ==
    (IF nread[c] < Len(wire[c]) \/ peer[c] = "fin" THEN {"IN"} ELSE {})
        \cup (IF peer[c] = "hup" THEN {"HUP"} ELSE {})

\* Frames written so far on the connections 1..c.
RECURSIVE FramesUpTo(_)
FramesUpTo(c) == IF c = 0 THEN 0 ELSE Len(wire[c]) + FramesUpTo(c - 1)

\* The peer of connection c writes one more frame.
PeerSend(c, payload) ==
    /\ FdOf(c) # 0
    /\ peer[c] = "open"
    /\ FramesUpTo(MaxConns) < limits.frames
    /\ wire' = [wire EXCEPT ![c] = Append(@, payload)]
    /\ ready' = IF FdOf(c) \in epollSet
                THEN [ready EXCEPT ![FdOf(c)] = @ \cup {"IN"}]
                ELSE ready
    /\ UNCHANGED <<fdTable, peer, nread, epollSet, nextConn, limits, connFd, streams, registered,
                   loopClosed, lockedIO, listenerVars, loopVars, workerVars, counterVars, connStats,
                   closeHist, taskHist>>

\* The peer of connection c closes ("fin": orderly, the socket turns readable
\* and reads zero bytes) or resets ("hup": hang-up without readable).
PeerClose(c, how) ==
    /\ FdOf(c) # 0
    /\ peer[c] = "open"
    /\ peer' = [peer EXCEPT ![c] = how]
    /\ ready' = IF FdOf(c) \in epollSet
                THEN [ready EXCEPT ![FdOf(c)] =
                          @ \cup (IF how = "fin" THEN {"IN"} ELSE {"HUP"})]
                ELSE ready
    /\ UNCHANGED <<fdTable, wire, nread, epollSet, nextConn, limits, connFd, streams, registered,
                   loopClosed, lockedIO, listenerVars, loopVars, workerVars, counterVars, connStats,
                   closeHist, taskHist>>

\* ------------------------------------------------------------------ close_fd
\* libc::close(fd); the counter moves only when close reports success, which
\* it does for a descriptor that is open.  The kernel drops a closed
\* descriptor from the epoll set.
close_fd_uncounted(fd) ==
    /\ fdTable' = [fdTable EXCEPT ![fd] = 0]
    /\ epollSet' = epollSet \ {fd}
    /\ ready' = [ready EXCEPT ![fd] = {}]
    /\ fds_closed' = fds_closed
    /\ closeCalls' = IF fdTable[fd] # 0
                     THEN [closeCalls EXCEPT ![fdTable[fd]] = @ + 1]
                     ELSE closeCalls
    /\ closeCounted' = closeCounted

close_fd(fd) ==
    IF fdTable[fd] # 0
    THEN /\ fdTable' = [fdTable EXCEPT ![fd] = 0]
         /\ epollSet' = epollSet \ {fd}
         /\ ready' = [ready EXCEPT ![fd] = {}]
         /\ fds_closed' = fds_closed + 1
         /\ closeCalls' = [closeCalls EXCEPT ![fdTable[fd]] = @ + 1]
         /\ closeCounted' = [closeCounted EXCEPT ![fdTable[fd]] = @ + 1]
    ELSE /\ epollSet' = epollSet \ {fd}
         /\ ready' = [ready EXCEPT ![fd] = {}]
         /\ UNCHANGED <<fdTable, fds_closed, closeCalls, closeCounted>>

\* ------------------------------------------------------------- master list
\* The scan of handle_epoll_event and remove_fd_from_list: index starts at 1
\* and counts the streams passed before the first one whose descriptor matches.
RECURSIVE ScanFrom(_, _, _)
ScanFrom(list, fd, index) ==
    IF index > Len(list) THEN [found |-> FALSE, index |-> index]
    ELSE IF list[index].fd = fd THEN [found |-> TRUE, index |-> index]
    ELSE ScanFrom(list, fd, index + 1)

Scan(list, fd) == ScanFrom(list, fd, 1)

SplitOff_dropsFront(list, at) ==
    [front |-> <<>>, back |-> SubSeq(list, at + 1, Len(list))]

\* LinkedList::split_off(at): the list keeps its first `at` elements.
SplitOff(list, at) ==
    [front |-> SubSeq(list, 1, at), back |-> SubSeq(list, at + 1, Len(list))]

TakeAt_popsFront(list, index) == [stream |-> Head(list), list |-> Tail(list)]

TakeAt_keepsEntry(list, index) == [stream |-> list[index], list |-> list]

\* pop_front when index is 1, else split_off(index - 1), pop_front, append.
TakeAt(list, index) ==
    IF index = 1
    THEN [stream |-> Head(list), list |-> Tail(list)]
    ELSE LET split == SplitOff(list, index - 1)
         IN  [stream |-> Head(split.back), list |-> split.front \o Tail(split.back)]

PushBack_drops(list, s) == list

PushBack_twice(list, s) == Append(Append(list, s), s)

\* stream_list.push_back(stream)
PushBack(list, s) == Append(list, s)

\* add_stream_to_master_list: push_back, then stats::conn_recv().
add_stream_to_master_list(s) ==
    /\ streams' = PushBack(streams, s)
    /\ conn_recv' = conn_recv + 1
    /\ conn_lost' = conn_lost

\* remove_fd_from_list: the entry with the descriptor is removed and
\* stats::conn_lost() called; nothing happens when there is none.
remove_fd_from_list(fd) ==
    /\ LET at == Scan(streams, fd)
       IN  IF at.found
           THEN /\ streams' = TakeAt(streams, at.index).list
                /\ conn_lost' = conn_lost + 1
           ELSE UNCHANGED <<streams, conn_lost>>
    /\ conn_recv' = conn_recv

InRegistry(c) == \E i \in DOMAIN streams : streams[i].conn = c

\* ----------------------------------------------------------------- listener
\* listener.incoming() yields a connection; handle_new_connection counts it.
Accept ==
    /\ lpc = "idle"
    /\ nextConn <= limits.conns
    /\ connFd' = [connFd EXCEPT ![nextConn] = LowestFree]
    /\ fdTable' = [fdTable EXCEPT ![LowestFree] = nextConn]
    /\ fds_opened' = fds_opened + 1
    /\ lstream' = [conn |-> nextConn, fd |-> LowestFree]
    /\ nextConn' = nextConn + 1
    /\ lpc' = "setup"
    /\ UNCHANGED <<peer, wire, nread, epollSet, ready, limits, streams, fds_closed, connStats,
                   registered, loopClosed, lockedIO, loopVars, workerVars, closeHist, taskHist>>

\* The order of the statements of handle_new_connection once the descriptor
\* is counted: set the socket up, add the stream to the master list, add the
\* descriptor to epoll.
ListenerNext_registerFirst(pc) ==
    CASE pc = "setup" -> "register"
      [] pc = "register" -> "insert"
      [] pc = "insert" -> "done"

ListenerNext(pc) ==
    CASE pc = "setup" -> "insert"
      [] pc = "insert" -> "register"
      [] pc = "register" -> "done"

\* The end of a listener step: on to the next statement, or the connection is
\* handed over and the listener is back in incoming().
ListenerStep(pc) ==
    IF ListenerNext(pc) = "done"
    THEN /\ lpc' = "idle"
         /\ lstream' = NoStream
    ELSE /\ lpc' = ListenerNext(pc)
         /\ UNCHANGED lstream

\* setup_new_socket and, under TLS, SslStream::accept: on an error the
\* descriptor is closed and the connection abandoned.
ListenerSetup(result) ==
    /\ lpc = "setup"
    /\ IF result = "Ok"
       THEN /\ ListenerStep("setup")
            /\ UNCHANGED <<fdTable, epollSet, ready, fds_closed, closeHist>>
       ELSE /\ close_fd(lstream.fd)
            /\ lpc' = "idle"
            /\ lstream' = NoStream
    /\ UNCHANGED <<peer, wire, nread, nextConn, limits, connFd, streams, fds_opened, connStats, registered,
                   loopClosed, lockedIO, loopVars, workerVars, taskHist>>

\* add_stream_to_master_list(stream, streams)
ListenerInsert ==
    /\ lpc = "insert"
    /\ add_stream_to_master_list(lstream)
    /\ ListenerStep("insert")
    /\ UNCHANGED <<envVars, registered, loopClosed, lockedIO, loopVars, workerVars,
                   counterVars, closeHist, taskHist>>

\* add_to_epoll: epoll::ctl(ADD); a socket that is already readable or hung
\* up is reported at once.
ListenerRegister(result) ==
    /\ lpc = "register"
    /\ IF result = "Ok"
       THEN /\ epollSet' = epollSet \cup {lstream.fd}
            /\ ready' = [ready EXCEPT ![lstream.fd] = MaskNow(lstream.conn)]
            /\ registered' = registered \cup {lstream.conn}
            /\ ListenerStep("register")
       ELSE /\ lpc' = "rollback"
            /\ UNCHANGED <<epollSet, ready, registered, lstream>>
    /\ UNCHANGED <<fdTable, peer, wire, nread, nextConn, limits, connFd, streams, loopClosed, lockedIO,
                   loopVars, workerVars, counterVars, connStats, closeHist, taskHist>>

\* remove_fd_from_list(fd, streams)
ListenerRollback ==
    /\ lpc = "rollback"
    /\ remove_fd_from_list(lstream.fd)
    /\ lpc' = "close"
    /\ UNCHANGED <<envVars, lstream, registered, loopClosed, lockedIO, loopVars, workerVars,
                   counterVars, closeHist, taskHist>>

\* close_fd(fd) after the rollback
ListenerClose ==
    /\ lpc = "close"
    /\ close_fd(lstream.fd)
    /\ lpc' = "idle"
    /\ lstream' = NoStream
    /\ UNCHANGED <<peer, wire, nread, nextConn, limits, connFd, streams, fds_opened, connStats, registered,
                   loopClosed, lockedIO, loopVars, workerVars, taskHist>>


\* ---------------------------------------------------------------- the pool
\* A worker's channel as a rendezvous channel: a send waits until the worker
\* has taken what was sent before.
ChannelAccepts_rendezvous(q) == q = <<>>

\* channel(): the asynchronous channel of std::sync::mpsc has an unbounded
\* buffer, so a send returns at once whatever the channel holds.
ChannelAccepts(q) == TRUE

\* (*pool).run(closure): the closure goes to the channel of one worker.
pool_run(task, w) ==
    /\ w <= limits.workers
    /\ ChannelAccepts(queues[w])
    /\ queues' = [queues EXCEPT ![w] = Append(@, task)]
    /\ submitted' = [submitted EXCEPT ![task.stream.conn] = Append(@, task)]

DeliverTask(s, frame) ==
    [kind |-> "deliver", stream |-> s, payload |-> frame.bytes, seq |-> frame.seq]

StatsTask(s, frame) ==
    [kind |-> "stats", stream |-> s, payload |-> frame.bytes, seq |-> frame.seq]

ClosedTask(s) ==
    [kind |-> "closed", stream |-> s, payload |-> <<>>, seq |-> 0]

\* ----------------------------------------------------------- readiness loop
\* Where the loop goes once an event is fully handled: the next event of the
\* batch, or back to epoll::wait.
NextEventPc(rest) == IF rest = {} THEN "wait" ELSE "dispatch"

\* epoll::wait(epfd, events, -1) returns the pending events.
LoopWait ==
    /\ epc = "wait"
    /\ \E f \in Fds : ready[f] # {}
    /\ batch' = {[data |-> f, events |-> ready[f]] : f \in {g \in Fds : ready[g] # {}}}
    /\ ready' = [f \in Fds |-> {}]
    /\ epc' = "dispatch"
    /\ UNCHANGED <<fdTable, peer, wire, nread, epollSet, nextConn, limits, connFd, streams, event,
                   stream, rx_queue, registered, loopClosed, lockedIO, listenerVars,
                   workerVars, counterVars, connStats, closeHist, taskHist>>

\* epoll::wait returns an error: event_loop logs it and panics, which ends
\* the thread of the readiness loop.
LoopWaitError ==
    /\ epc = "wait"
    /\ epc' = "dead"
    /\ UNCHANGED <<envVars, streams, batch, event, stream, rx_queue, registered,
                   loopClosed, lockedIO, listenerVars, workerVars, counterVars, connStats, closeHist,
                   taskHist>>

\* handle_epoll_event, under the mutex: find the stream of the event and take
\* it out of the list; a descriptor that is not in the list is deregistered
\* and closed on the spot, before the guard of the mutex goes out of scope.
LoopTake(e) ==
    /\ epc = "dispatch"
    /\ e \in batch
    /\ batch' = batch \ {e}
    /\ LET at == Scan(streams, e.data)
       IN  IF ~at.found
           THEN /\ close_fd(e.data)
                /\ lockedIO' = lockedIO \cup {"epoll_ctl", "close"}
                /\ epc' = NextEventPc(batch')
                /\ UNCHANGED <<streams, event, stream>>
           ELSE /\ streams' = TakeAt(streams, at.index).list
                /\ stream' = TakeAt(streams, at.index).stream
                /\ event' = e
                /\ epc' = "handle"
                /\ UNCHANGED <<fdTable, epollSet, ready, counterVars, closeHist, lockedIO>>
    /\ UNCHANGED <<peer, wire, nread, nextConn, limits, connFd, rx_queue, fds_opened, connStats, registered,
                   loopClosed, listenerVars, workerVars, taskHist>>

\* The order of the three statements of a close path: remove_fd_from_epoll,
\* close_fd, (*pool).run(on_stream_closed).
ClosePathNext_notifyFirst(pc) ==
    CASE pc = "dereg" -> "notify"
      [] pc = "notify" -> "close"
      [] pc = "close" -> "done"

ClosePathNext_skipNotify(pc) ==
    CASE pc = "dereg" -> "close"
      [] pc = "close" -> "done"
      [] pc = "notify" -> "done"

ClosePathNext_putsBack(pc) ==
    CASE pc = "dereg" -> "close"
      [] pc = "close" -> "notify"
      [] pc = "notify" -> "putback"

ClosePathNext(pc) ==
    CASE pc = "dereg" -> "close"
      [] pc = "close" -> "notify"
      [] pc = "notify" -> "done"

\* The frames stream.drain_rx_queue() returns after a recv that read
\* everything the kernel held for the socket behind the descriptor.
Drained(c) ==
    [i \in 1..(Len(wire[c]) - nread[c]) |->
        [seq |-> nread[c] + i, bytes |-> wire[c][nread[c] + i]]]

\* handle_read_event: stream.recv() for an event whose mask has EPOLLIN.
\* recv succeeds only on a socket whose peer has not closed; it may fail on
\* any socket.
LoopRecv(result) ==
    /\ epc = "handle"
    /\ "IN" \in event.events
    /\ LET c == fdTable[stream.fd]
       IN  IF result = "Ok"
           THEN /\ c # 0
                /\ peer[c] = "open"
                /\ rx_queue' = Drained(c)
                /\ nread' = [nread EXCEPT ![c] = Len(wire[c])]
                /\ ready' = [ready EXCEPT ![stream.fd] = @ \ {"IN"}]
                /\ epc' = IF Drained(c) = <<>> THEN "putback" ELSE "drain"
                /\ UNCHANGED loopClosed
           ELSE /\ epc' = "dereg"
                /\ loopClosed' = loopClosed \cup {stream.conn}
                /\ UNCHANGED <<rx_queue, nread, ready>>
    /\ UNCHANGED <<fdTable, peer, wire, epollSet, nextConn, limits, connFd, streams, batch, event,
                   stream, registered, lockedIO, listenerVars, workerVars, counterVars, connStats,
                   closeHist, taskHist>>

\* handle_epoll_event for an event whose mask lacks EPOLLIN.
LoopHangup ==
    /\ epc = "handle"
    /\ "IN" \notin event.events
    /\ epc' = "dereg"
    /\ loopClosed' = loopClosed \cup {stream.conn}
    /\ UNCHANGED <<envVars, streams, batch, event, stream, rx_queue, registered,
                   lockedIO, listenerVars, workerVars, counterVars, connStats, closeHist, taskHist>>

\* for payload in rx_queue.iter_mut(): the next frame and what is left.
Iter_fromBack(q) == [frame |-> q[Len(q)], rest |-> SubSeq(q, 1, Len(q) - 1)]

Iter(q) == [frame |-> Head(q), rest |-> Tail(q)]

\* What the loop still iterates after a stats request: `return Ok(())`.
RestAfterStats(rest) == <<>>

\* One iteration of the loop over the drained frames.
LoopSubmit(w) ==
    /\ epc = "drain"
    /\ rx_queue # <<>>
    /\ LET it == Iter(rx_queue)
       IN  IF IsStatsRequest(it.frame.bytes)
           THEN /\ pool_run(StatsTask(stream, it.frame), w)
                /\ rx_queue' = RestAfterStats(it.rest)
           ELSE /\ pool_run(DeliverTask(stream, it.frame), w)
                /\ rx_queue' = it.rest
    /\ epc' = IF rx_queue' = <<>> THEN "putback" ELSE "drain"
    /\ UNCHANGED <<envVars, streams, batch, event, stream, alive, registered,
                   loopClosed, lockedIO, listenerVars, counterVars, connStats, closeHist, delivered,
                   notified, sends>>

\* handle_read_event returned Ok: add_stream_to_master_list(stream, streams)
LoopPutBack ==
    /\ epc = "putback"
    /\ add_stream_to_master_list(stream)
    /\ stream' = NoStream
    /\ event' = NoEvent
    /\ epc' = NextEventPc(batch)
    /\ UNCHANGED <<envVars, batch, rx_queue, registered, loopClosed, lockedIO, listenerVars,
                   workerVars, counterVars, closeHist, taskHist>>

\* The end of a close path step: on to the next statement, or the event is done.
ClosePathStep(pc) ==
    IF ClosePathNext(pc) = "done"
    THEN /\ epc' = NextEventPc(batch)
         /\ stream' = NoStream
         /\ event' = NoEvent
    ELSE /\ epc' = ClosePathNext(pc)
         /\ UNCHANGED <<stream, event>>

LoopDereg_forgotten ==
    /\ epc = "dereg"
    /\ ClosePathStep("dereg")
    /\ UNCHANGED <<envVars, streams, batch, rx_queue, registered, loopClosed, lockedIO,
                   listenerVars, workerVars, counterVars, connStats, closeHist, taskHist>>

\* remove_fd_from_epoll(epfd, fd)
LoopDereg ==
    /\ epc = "dereg"
    /\ epollSet' = epollSet \ {stream.fd}
    /\ ready' = [ready EXCEPT ![stream.fd] = {}]
    /\ ClosePathStep("dereg")
    /\ UNCHANGED <<fdTable, peer, wire, nread, nextConn, limits, connFd, streams, batch, rx_queue,
                   registered, loopClosed, lockedIO, listenerVars, workerVars, counterVars, connStats,
                   closeHist, taskHist>>

\* close_fd(fd)
LoopClose ==
    /\ epc = "close"
    /\ close_fd(stream.fd)
    /\ ClosePathStep("close")
    /\ UNCHANGED <<peer, wire, nread, nextConn, limits, connFd, streams, batch, rx_queue, fds_opened, connStats,
                   registered, loopClosed, lockedIO, listenerVars, workerVars, taskHist>>

\* (*pool).run(|| on_stream_closed(stream_fd))
LoopNotify(w) ==
    /\ epc = "notify"
    /\ pool_run(ClosedTask(stream), w)
    /\ ClosePathStep("notify")
    /\ UNCHANGED <<envVars, streams, batch, rx_queue, alive, registered, loopClosed, lockedIO,
                   listenerVars, counterVars, connStats, closeHist, delivered, notified, sends>>

\* ------------------------------------------------------------------ workers
\* WorkerThread::start: for task in rx.iter() { task.run(..) }.  A panic in
\* the task unwinds out of the loop and ends the thread.
WorkerRun(w, panics) ==
    /\ alive[w]
    /\ queues[w] # <<>>
    /\ LET task == Head(queues[w])
       IN  /\ panics => task.kind # "stats"
           /\ delivered' = IF task.kind = "deliver"
                           THEN [delivered EXCEPT ![task.stream.conn] = Append(@, task.payload)]
                           ELSE delivered
           /\ notified' = IF task.kind = "closed"
                          THEN [notified EXCEPT ![task.stream.conn] = @ + 1]
                          ELSE notified
           /\ sends' = IF task.kind = "stats"
                       THEN sends \cup {[from |-> task.stream.conn,
                                         closed |-> closeCalls[task.stream.conn] > 0,
                                         dest |-> fdTable[task.stream.fd]]}
                       ELSE sends
    /\ queues' = [queues EXCEPT ![w] = Tail(@)]
    /\ alive' = [alive EXCEPT ![w] = ~panics]
    /\ UNCHANGED <<envVars, streams, registered, loopClosed, lockedIO, listenerVars, loopVars,
                   counterVars, connStats, closeHist, submitted>>

\* ------------------------------------------------------------ specification
Next ==
    \/ \E c \in Conns, p \in Payloads : PeerSend(c, p)
    \/ \E c \in Conns, how \in {"fin", "hup"} : PeerClose(c, how)
    \/ Accept
    \/ \E r \in {"Ok", "Err"} : ListenerSetup(r)
    \/ ListenerInsert
    \/ \E r \in {"Ok", "Err"} : ListenerRegister(r)
    \/ ListenerRollback
    \/ ListenerClose
    \/ LoopWait
    \/ LoopWaitError
    \/ \E e \in batch : LoopTake(e)
    \/ \E r \in {"Ok", "Err"} : LoopRecv(r)
    \/ LoopHangup
    \/ \E w \in Workers : LoopSubmit(w)
    \/ LoopPutBack
    \/ LoopDereg
    \/ LoopClose
    \/ \E w \in Workers : LoopNotify(w)
    \/ \E w \in Workers, panics \in BOOLEAN : WorkerRun(w, panics)

Spec == Init /\ [][Next]_vars

SpecBurst == InitBurst /\ [][Next]_vars

\* epoll::wait reports an event whose descriptor has no stream in the list
\* and is not open: the input of the unknown-descriptor branch of
\* handle_epoll_event.
UnknownEvent(f) ==
    /\ epc = "wait"
    /\ fdTable[f] = 0
    /\ batch' = {[data |-> f, events |-> {"IN"}]}
    /\ epc' = "dispatch"
    /\ UNCHANGED <<envVars, streams, event, stream, rx_queue, registered, loopClosed,
                   lockedIO, listenerVars, workerVars, counterVars, connStats, closeHist,
                   taskHist>>

NextUnknownFd ==
    \/ Next
    \/ \E f \in Fds : UnknownEvent(f)

\* One peer and one worker, with a readiness facility that may report
\* descriptors the registry does not know.
SpecUnknownFd == InitBurst /\ [][NextUnknownFd]_vars

\* The master list on its own: streams are pushed back with the descriptor
\* numbers accept hands out, then taken out by descriptor, by the lookup of
\* handle_epoll_event and by remove_fd_from_list.
ListFds == 1..MaxList

ListInsert ==
    /\ Len(streams) < MaxList
    /\ event = NoEvent
    /\ lstream = NoStream
    /\ add_stream_to_master_list([conn |-> Len(streams) + 1, fd |-> Len(streams) + 1])
    /\ UNCHANGED <<envVars, listenerVars, loopVars, workerVars, counterVars, closeHist,
                   taskHist, registered, loopClosed, lockedIO>>

\* The lookup of handle_epoll_event for an event with data = fd.
TakeForEvent(fd) ==
    /\ event' = [data |-> fd, events |-> {"IN"}]
    /\ LET at == Scan(streams, fd)
       IN  IF at.found
           THEN /\ streams' = TakeAt(streams, at.index).list
                /\ stream' = TakeAt(streams, at.index).stream
           ELSE UNCHANGED <<streams, stream>>
    /\ UNCHANGED <<envVars, listenerVars, epc, batch, rx_queue, workerVars, counterVars, connStats,
                   closeHist, taskHist, registered, loopClosed, lockedIO>>

\* remove_fd_from_list(fd, streams)
RemoveFromList(fd) ==
    /\ lstream' = [conn |-> fd, fd |-> fd]
    /\ remove_fd_from_list(fd)
    /\ UNCHANGED <<envVars, lpc, loopVars, workerVars, counterVars, closeHist,
                   taskHist, registered, loopClosed, lockedIO>>

NextTake ==
    \/ ListInsert
    \/ \E fd \in ListFds : TakeForEvent(fd)
    \/ \E fd \in ListFds : RemoveFromList(fd)

SpecTake == Init /\ [][NextTake]_vars

TypeOK ==
    /\ fdTable \in [Fds -> Conns \cup {0}]
    /\ epollSet \subseteq {f \in Fds : fdTable[f] # 0}
    /\ \A f \in Fds : ready[f] # {} => f \in epollSet
    /\ \A i \in DOMAIN streams : fdTable[streams[i].fd] = streams[i].conn

\* ================================================================== claims
\* Tasks of one kind handed to the pool for connection c, as positions of
\* submitted[c].
TasksOf(c, kind) == {k \in DOMAIN submitted[c] : submitted[c][k].kind = kind}

\* Frame i of connection c has been drained and the loop over the drained
\* batch has not reached it yet.
Pending(c, i) ==
    /\ stream.conn = c
    /\ \E k \in DOMAIN rx_queue : rx_queue[k].seq = i

\* The readiness loop holds the stream of connection c (between taking it out
\* of the master list and putting it back or finishing its close path).
LoopHolds(c) == stream.conn = c

\* The deliver-message tasks submitted for frame i of connection c.
DeliveriesOf(c, i) ==
    {k \in TasksOf(c, "deliver") :
        /\ submitted[c][k].seq = i
        /\ submitted[c][k].payload = wire[c][i]
        /\ submitted[c][k].stream = [conn |-> c, fd |-> connFd[c]]}

\* C1: every drained frame that is not a stats request has exactly one
\* deliver-message task with the connection's stream and the same payload,
\* once the loop over its batch is past it, whatever else the batch held.
C1_EveryFrameDeliveredOnce ==
    \A c \in Conns : \A i \in 1..nread[c] :
        (~IsStatsRequest(wire[c][i]) /\ ~Pending(c, i))
            => Cardinality(DeliveriesOf(c, i)) = 1

\* C2: a stats request is never delivered to on_data_received, and every
\* drained stats request has exactly one emit-stats task on the same stream.
C2_StatsRequestAnswered ==
    \A c \in Conns :
        /\ \A k \in DOMAIN delivered[c] : ~IsStatsRequest(delivered[c][k])
        /\ \A i \in 1..nread[c] :
              IsStatsRequest(wire[c][i]) =>
                  /\ \A k \in TasksOf(c, "deliver") : submitted[c][k].seq # i
                  /\ ~Pending(c, i) =>
                        Cardinality({k \in TasksOf(c, "stats") :
                            /\ submitted[c][k].seq = i
                            /\ submitted[c][k].stream = [conn |-> c, fd |-> connFd[c]]}) = 1

\* C3: the deliver-message tasks of a connection are submitted in the order
\* in which their frames arrived, over all its readiness events.
C3_SubmittedInArrivalOrder ==
    \A c \in Conns :
        /\ \A k \in TasksOf(c, "deliver") :
              /\ submitted[c][k].seq \in 1..Len(wire[c])
              /\ submitted[c][k].payload = wire[c][submitted[c][k].seq]
        /\ \A j, k \in TasksOf(c, "deliver") :
              j < k => submitted[c][j].seq < submitted[c][k].seq

\* Two message frames of one connection have been submitted.
C3_Witness ==
    \E c \in Conns : Cardinality(TasksOf(c, "deliver")) >= 2

IsPrefix(s, t) ==
    /\ Len(s) <= Len(t)
    /\ \A k \in 1..Len(s) : s[k] = t[k]

IsMessage(payload) == ~IsStatsRequest(payload)

\* C4: what on_data_received has been given for a connection is a prefix of
\* the message frames parsed from that connection's bytes.
C4_DeliveredIsPrefix ==
    \A c \in Conns : IsPrefix(delivered[c], SelectSeq(wire[c], IsMessage))

\* C5: a connection the loop closes gets exactly one notify-closed task with
\* its descriptor once its event is handled, no other connection gets one, a
\* connection with such a task is not in the registry, and on_stream_closed
\* runs at most once per task; a peer that closes without sending ends with
\* that single notification and nothing else.
C5_OneNotifyPerClosedConnection ==
    \A c \in Conns :
        /\ Cardinality(TasksOf(c, "closed")) <= 1
        /\ \A k \in TasksOf(c, "closed") :
              /\ submitted[c][k].stream.fd = connFd[c]
              /\ c \in loopClosed
              /\ ~InRegistry(c)
        /\ (c \in loopClosed /\ ~LoopHolds(c)) => Cardinality(TasksOf(c, "closed")) = 1
        /\ notified[c] <= Cardinality(TasksOf(c, "closed"))
        /\ (c \in loopClosed /\ ~LoopHolds(c) /\ wire[c] = <<>>) =>
              /\ Len(submitted[c]) = 1
              /\ (\A w \in Workers : \A k \in DOMAIN queues[w] :
                      queues[w][k].stream.conn # c) => notified[c] = 1

\* A peer connected, closed without sending, and on_stream_closed has run.
C5_Witness ==
    \E c \in Conns :
        /\ wire[c] = <<>>
        /\ peer[c] # "open"
        /\ c \in loopClosed
        /\ notified[c] = 1

\* C6: the notify-closed task of a connection is the last task submitted for
\* it, and it is submitted after close was called on the descriptor.
C6_NotifyClosedIsLast ==
    \A c \in Conns : \A k \in TasksOf(c, "closed") :
        /\ k = Len(submitted[c])
        /\ closeCalls[c] >= 1

\* A connection had a frame dispatched and was then closed and notified.
C6_Witness ==
    \E c \in Conns :
        /\ Len(submitted[c]) >= 2
        /\ submitted[c][Len(submitted[c])].kind = "closed"

\* C7 as stated: a descriptor that was registered is in the registry, or was
\* closed exactly once and counted exactly once.
C7_InRegistryOrClosedOnce ==
    \A c \in registered :
        InRegistry(c) \/ (closeCalls[c] = 1 /\ closeCounted[c] = 1)

\* C7 amended: the same, except while the readiness loop is inside
\* handle_epoll_event for that descriptor.
C7_InRegistryOrHeldOrClosedOnce ==
    \A c \in registered :
        \/ InRegistry(c) /\ closeCalls[c] = 0 /\ closeCounted[c] = 0
        \/ LoopHolds(c) /\ closeCalls[c] <= 1 /\ closeCounted[c] = closeCalls[c]
        \/ ~InRegistry(c) /\ closeCalls[c] = 1 /\ closeCounted[c] = 1

\* A registered connection has been closed by the loop, which has moved on.
C7_Witness ==
    \E c \in registered :
        /\ ~InRegistry(c)
        /\ ~LoopHolds(c)
        /\ closeCalls[c] = 1

\* The listener is not inside handle_new_connection and the loop is not
\* inside handle_epoll_event.
Quiescent == lpc = "idle" /\ epc \in {"wait", "dispatch"}

\* C8: at a quiescent moment fds-opened minus fds-closed is the number of
\* entries in the registry.
C8_OpenedMinusClosedIsRegistrySize ==
    Quiescent => fds_opened - fds_closed = Len(streams)

\* Quiescent, with one connection closed and another still in the registry.
C8_Witness ==
    /\ Quiescent
    /\ fds_closed >= 1
    /\ Len(streams) >= 1
    /\ loopClosed # {}

\* C9: a panic in a task does not stop the worker that ran it.
C9_WorkerSurvivesPanic ==
    \A w \in Workers : alive[w]

\* C10: a send on a Stream handle of a connection whose descriptor the core
\* has closed fails and reaches no connection.
C10_SendAfterCloseFails ==
    \A s \in sends : s.closed => s.dest = 0

\* The descriptors that have a stream in the registry.
RegistryFds == {streams[i].fd : i \in DOMAIN streams}

\* C11 as stated: every descriptor registered with the readiness facility has
\* a stream in the registry.
C11_RegisteredIsInRegistry ==
    epollSet \subseteq RegistryFds

\* C11 amended: the same, except for the descriptor of the stream the
\* readiness loop has taken out and not yet put back or deregistered.
C11_RegisteredIsInRegistryOrHeld ==
    \A f \in epollSet :
        \/ f \in RegistryFds
        \/ stream.fd = f /\ epc \in {"handle", "drain", "putback", "dereg"}

\* A stream was read, put back, and its descriptor is still registered while
\* the loop handles an event of another connection.
C11_Witness ==
    \E c \in Conns :
        /\ nread[c] > 0
        /\ InRegistry(c)
        /\ FdOf(c) \in epollSet
        /\ stream # NoStream
        /\ stream.fd \in epollSet

\* C12: no task sent to a worker's queue is lost: a task that has not been
\* executed yet waits in the channel of a worker that is still receiving, so
\* that it is executed, after the tasks sent before it.
C12_NoQueuedTaskLost ==
    \A w \in Workers : queues[w] # <<>> => alive[w]

\* C13: no readiness event waiting to be handled carries a descriptor that
\* handle_epoll_event would not find in the registry, whatever the listener
\* is doing meanwhile; the stream found belongs to the live connection.
C13_EventFindsItsStream ==
    epc = "dispatch" =>
        \A e \in batch :
            /\ Scan(streams, e.data).found
            /\ streams[Scan(streams, e.data).index].conn = fdTable[e.data]

\* An event waits to be handled while the listener is between inserting and
\* registering the next connection.
C13_Witness ==
    /\ epc = "dispatch"
    /\ batch # {}
    /\ lpc = "register"
    /\ InRegistry(lstream.conn)

\* C14: a connection's descriptor is closed at most once, by the listener if
\* it was never registered and by the readiness loop otherwise; whoever is
\* about to call close still owns the descriptor, and when the loop is about
\* to call it the stream is out of the registry and the descriptor out of the
\* readiness set.
C14_ClosedOnceByOneThread ==
    /\ \A c \in Conns :
          /\ closeCalls[c] <= 1
          /\ closeCalls[c] = 1 => (c \in loopClosed <=> c \in registered)
    /\ lpc \in {"setup", "close"} =>
          /\ fdTable[lstream.fd] = lstream.conn
          /\ closeCalls[lstream.conn] = 0
          /\ lstream.conn \notin registered
    /\ epc = "close" =>
          /\ fdTable[stream.fd] = stream.conn
          /\ closeCalls[stream.conn] = 0
          /\ stream.conn \in registered
          /\ stream.fd \notin RegistryFds
          /\ stream.fd \notin epollSet

\* The loop has closed one connection and the listener another.
C14_Witness ==
    \E c, d \in Conns :
        /\ c \in loopClosed /\ closeCalls[c] = 1
        /\ d \notin registered /\ closeCalls[d] = 1

\* The step of the listener that removes the stream after a failed
\* registration, and the step that closes its descriptor.
RollbackStep == lpc = "rollback" /\ lpc' = "close"

RollbackCloseStep == lpc = "close" /\ lpc' = "idle"

\* C15: after a failed registration the listener removes exactly the stream
\* of the new descriptor from the registry, leaving every other entry as it
\* was, then closes the descriptor; it submits no task, and when it is done
\* the descriptor is neither in the registry nor in the readiness set.  A
\* connection the listener closed never gets a notify-closed task.
C15_RollbackOnRegisterFailure ==
    /\ [][RollbackStep =>
              LET Other(s) == s.conn # lstream.conn
              IN  /\ streams' = SelectSeq(streams, Other)
                  /\ Len(streams') = Len(streams) - 1
                  /\ submitted' = submitted
                  /\ lstream.fd \notin epollSet']_vars
    /\ [][RollbackCloseStep =>
              /\ fdTable[lstream.fd] = lstream.conn
              /\ fdTable'[lstream.fd] = 0
              /\ closeCalls'[lstream.conn] = 1
              /\ streams' = streams
              /\ submitted' = submitted
              /\ lstream.fd \notin epollSet'
              /\ \A i \in DOMAIN streams' : streams'[i].fd # lstream.fd]_vars
    /\ [](\A c \in Conns :
              (closeCalls[c] = 1 /\ c \notin registered) =>
                  /\ ~InRegistry(c)
                  /\ submitted[c] = <<>>)

\* The rollback has removed the new stream and another connection's stream
\* is still in the registry.
C15_Witness ==
    /\ lpc = "close"
    /\ ~InRegistry(lstream.conn)
    /\ Len(streams) >= 1

\* The step with which handle_epoll_event returns for a stream it found.
EventDoneStep == stream # NoStream /\ stream' = NoStream

\* The positions of connection c in a list of streams.
EntriesOf(list, c) == {i \in DOMAIN list : list[i].conn = c}

\* C16: when handle_epoll_event returns for a stream it found, then either
\* the mask was readable and recv succeeded, and the stream is in the registry
\* exactly once with its descriptor open and registered; or recv failed or
\* the mask was not readable, and the stream is not in the registry and its
\* descriptor is deregistered and closed (its number may by then belong to
\* a newly accepted connection).  recv is not called for a mask
\* that is not readable, and a stream on a close path is never in the
\* registry again.
C16_PutBackUnlessClosed ==
    /\ [][EventDoneStep =>
              IF stream.conn \in loopClosed
              THEN /\ EntriesOf(streams', stream.conn) = {}
                   /\ \A f \in epollSet' : fdTable'[f] # stream.conn
                   /\ fdTable'[stream.fd] # stream.conn
                   /\ closeCalls'[stream.conn] = 1
              ELSE /\ "IN" \in event.events
                   /\ Cardinality(EntriesOf(streams', stream.conn)) = 1
                   /\ stream.fd \in epollSet'
                   /\ fdTable'[stream.fd] = stream.conn
                   /\ closeCalls'[stream.conn] = 0]_vars
    /\ [][(epc = "handle" /\ epc' # "handle" /\ "IN" \notin event.events) =>
              /\ nread' = nread
              /\ rx_queue' = rx_queue
              /\ stream.conn \in loopClosed']_vars
    /\ [](\A c \in loopClosed : ~InRegistry(c))

\* One connection was read and put back, another was closed by the loop, and
\* the loop is done with both.
C16_Witness ==
    \E c, d \in Conns :
        /\ nread[c] > 0 /\ InRegistry(c) /\ FdOf(c) \in epollSet
        /\ d \in loopClosed /\ ~LoopHolds(d) /\ closeCalls[d] = 1

\* C17: the registry never holds two streams with the same descriptor.
C17_NoDuplicateDescriptors ==
    \A i, j \in DOMAIN streams :
        streams[i].fd = streams[j].fd => i = j

\* The registry holds a stream whose descriptor number was used by an
\* earlier connection that the loop took, closed and is done with, while the
\* listener is idle again.
C17_Witness ==
    \E c, d \in Conns :
        /\ c # d
        /\ connFd[c] = connFd[d]
        /\ c \in loopClosed /\ ~LoopHolds(c)
        /\ InRegistry(d)
        /\ d \in registered

\* C20: an error returned by wait does not end the readiness loop, which
\* goes on handling events.
C20_LoopSurvivesWaitError ==
    epc # "dead"

\* C18: no system call on a descriptor is made while the registry mutex is
\* held, on any path of handle_epoll_event.
C18_NoSyscallUnderRegistryLock ==
    lockedIO = {}

\* A step of the readiness loop inside handle_epoll_event.
HandlerStep ==
    \/ \E e \in batch : LoopTake(e)
    \/ \E r \in {"Ok", "Err"} : LoopRecv(r)
    \/ LoopHangup
    \/ \E w \in Workers : LoopSubmit(w)
    \/ LoopPutBack
    \/ LoopDereg
    \/ LoopClose
    \/ \E w \in Workers : LoopNotify(w)

\* C19: the readiness loop is never blocked outside wait: whatever the
\* workers are doing and however many tasks wait in their channels, the loop
\* can take its next step until the event is handled and it is back in wait.
C19_LoopNeverBlocksOnWorkers ==
    epc \notin {"wait", "dead"} => ENABLED HandlerStep

\* No worker has executed anything, every worker has tasks waiting, and the
\* loop has handled events of every connection, has put a stream back and is
\* in wait again.
C19_Witness ==
    /\ epc = "wait"
    /\ \A w \in Workers : alive[w] /\ queues[w] # <<>>
    /\ \A c \in Conns : delivered[c] = <<>> /\ notified[c] = 0 /\ submitted[c] # <<>>
    /\ sends = {}
    /\ \E c \in Conns : InRegistry(c) /\ nread[c] > 0

\* The descriptors of a list of streams, and the list without descriptor fd.
FdsIn(list) == {list[i].fd : i \in DOMAIN list}

Without(list, fd) ==
    LET Other(s) == s.fd # fd
    IN  SelectSeq(list, Other)

\* The descriptor a step asks the registry for: the event's in the lookup of
\* handle_epoll_event, the argument in remove_fd_from_list.
TakeStep == event' # event \/ lstream' # lstream

AskedFd == IF event' # event THEN event'.data ELSE lstream'.fd

\* C21: taking descriptor fd out of the registry removes the one entry with
\* that descriptor, wherever it is in the list, and keeps the others in their
\* order; the lookup hands out that entry; when no entry has the descriptor
\* the registry is unchanged.
C21_TakeRemovesOnlyThatEntry ==
    [][TakeStep =>
          /\ streams' = Without(streams, AskedFd)
          /\ AskedFd \in FdsIn(streams) => Len(streams') = Len(streams) - 1
          /\ AskedFd \notin FdsIn(streams) => streams' = streams
          /\ (event' # event /\ AskedFd \in FdsIn(streams)) =>
                /\ stream'.fd = AskedFd
                /\ stream' \in {streams[i] : i \in DOMAIN streams}
          /\ (event' # event /\ AskedFd \notin FdsIn(streams)) => stream' = stream]_vars

\* The lookup has taken an entry from between two entries that are still
\* there, and remove_fd_from_list has removed the last entry of the list.
C21_Witness ==
    /\ Len(streams) >= 2
    /\ \E i \in 1..(Len(streams) - 1) :
          /\ streams[i].fd < stream.fd
          /\ stream.fd < streams[i + 1].fd
    /\ lstream.fd = MaxList
    /\ MaxList \notin FdsIn(streams)

\* C22: at a quiescent moment connections-received minus connections-lost
\* is the number of entries in the registry.
C22_ReceivedMinusLostIsRegistrySize ==
    Quiescent => conn_recv - conn_lost = Len(streams)

====
